---- MODULE Spec2Model ----
(***************************************************************************)
(* Freshness-aware cache-or-fetch protocol of the dashboard data API.      *)
(*                                                                         *)
(* Handlers modelled: api/commute.js (v3), api/traffic.js, api/markets.js  *)
(* (the two-symbol handler and the four-symbol handler with the history    *)
(* cache).  Every `await` of a handler is one step of the model: the       *)
(* store answering a kv.get, an upstream answering a fetch, the store      *)
(* settling a kv.set.  Requests run concurrently on a shared store.        *)
(*                                                                         *)
(* Time is in milliseconds since Sunday 00:00:00.000 UTC of one winter     *)
(* week (America/Chicago is on CST, UTC-6, throughout), so that Date.now() *)
(* stays inside TLC's integers.  An ISO timestamp is                       *)
(* represented by the millisecond it denotes (toISOString and Date.parse   *)
(* are exact at millisecond precision); any other string parses to NaN.    *)
(* The store's JSON round trip is exact on the values stored here          *)
(* (finite numbers, strings, null, arrays and objects of those).           *)
(***************************************************************************)
EXTENDS Integers, Sequences, FiniteSets, TLC

VARIABLES
    clock,      \* true wall-clock time, ms
    kv,         \* the shared key-value store: key -> entry or Absent
    pc,         \* per request: the await the handler is suspended at
    ep,         \* per request: the endpoint it addresses
    loc,        \* per request: the handler's local variables
    res,        \* per request: the response sent to the client, or NoRes
    pending,    \* kv.set calls dispatched and not yet settled by the store
    obs,        \* per request: what it did (reads, upstream calls, writes, failures)
    started,    \* number of requests received so far
    skew,       \* per host: offset of its clock from true time
    family,     \* the endpoint the requests of this behaviour address
    probe       \* scratch result of the pure-function specifications

vars == <<clock, kv, pc, ep, loc, res, pending, obs, started, skew, family, probe>>

----------------------------------------------------------------------------
(* Bounds *)

\* requests received in one behaviour
MaxReq == 2

\* trading days an upstream series can span in the history specification
MaxDays == 7

\* Two serving hosts, each handling one request at a time: two requests can
\* be in flight together.  A request goes to h1 when h1 is free and to h2
\* otherwise, and a host is free again when it has answered its request and
\* the store has settled the write that request dispatched.
Req == {"h1", "h2"}

----------------------------------------------------------------------------
(* Time *)

HourMs == 60 * 60 * 1000
DayMs  == 24 * HourMs
WeekMs == 7 * DayMs

\* Tuesday 10:00 America/Chicago, which is Tuesday 16:00 UTC
Tue10 == 2 * DayMs + 16 * HourMs

\* The instants at which something can happen in a behaviour: around the
\* 300 s TTL for the TTL-gated endpoints; inside and outside the market
\* window and around the 6 h history TTL for the markets endpoint.
TimePoints(fam) ==
    IF fam \in {"markets2", "markets"}
    THEN { Tue10,
           Tue10 + 6 * HourMs,
           Tue10 + 10 * HourMs }
    ELSE { Tue10,
           Tue10 + 200 * 1000,
           Tue10 + 300 * 1000,
           Tue10 + 301 * 1000 }

\* Endpoints with disjoint keys share no state: a behaviour exercises one of
\* them, with concurrent and successive requests.  "markets2" and "markets"
\* are the two-symbol and the four-symbol version of api/markets.js, which
\* share their key: a behaviour may start on the older one and be upgraded.
Families == {"commute", "traffic", "markets2", "markets"}

\* Offset of host h2's clock from true time (h1 is on time): hosts are not
\* synchronised.
Skews == {0, 600 * 1000}

----------------------------------------------------------------------------
(* JavaScript values *)

Num(n) == [nan |-> FALSE, v |-> n]
NaN    == [nan |-> TRUE, v |-> 0]

\* if (n) ... for a number: 0 and NaN are falsy
TruthyNum(n) == ~n.nan /\ n.v # 0

Iso(t)     == [kind |-> "iso", ms |-> t]      \* new Date(t).toISOString()
BadString  == [kind |-> "str", ms |-> 0]      \* a non-empty string that is no date
Null       == [kind |-> "null", ms |-> 0]     \* null, undefined or a missing field

\* if (s) ... for a string-or-null: null, undefined and "" are falsy
TruthyStr(s) == s.kind \in {"iso", "str"}

DateParse(s) == IF s.kind = "iso" THEN Num(s.ms) ELSE NaN

Absent == [kind |-> "absent"]                 \* kv.get resolves to null

\* cached?.updated_iso
UpdatedIsoOf(cached) ==
    IF cached = Absent \/ "updated_iso" \notin DOMAIN cached THEN Null
    ELSE cached.updated_iso

----------------------------------------------------------------------------
(* Strings as sequences of one-character strings *)

ToLowerChar(c) ==
    CASE c = "A" -> "a"
      [] c = "B" -> "b"
      [] c = "C" -> "c"
      [] OTHER   -> c

\* U+0130 (capital I with dot above) and U+0307 (combining dot above),
\* written by name
CapitalIDot == "I_dot"
CombiningDot == "dot"

\* String.prototype.toLowerCase: the Unicode default case conversion, in
\* which U+0130 becomes the two code units U+0069 U+0307
RECURSIVE ToLower(_)
ToLower(s) ==
    IF s = <<>> THEN <<>>
    ELSE IF Len(s) = 1
    THEN (IF s[1] = CapitalIDot THEN <<"i", CombiningDot>> ELSE <<ToLowerChar(s[1])>>)
    ELSE ToLower(SubSeq(s, 1, Len(s) \div 2)) \o ToLower(SubSeq(s, Len(s) \div 2 + 1, Len(s)))

RECURSIVE TrimLeft(_)
TrimLeft(s) == IF s # <<>> /\ Head(s) = " " THEN TrimLeft(Tail(s)) ELSE s

RECURSIVE TrimRight(_)
TrimRight(s) ==
    IF s # <<>> /\ s[Len(s)] = " " THEN TrimRight(SubSeq(s, 1, Len(s) - 1)) ELSE s

Trim(s) == TrimRight(TrimLeft(s))

----------------------------------------------------------------------------
(* api/commute.js *)

TTL_SEC == 300

clampLen(s, max) ==
    LET v == Trim(s) IN IF Len(v) > max THEN SubSeq(v, 1, max) ELSE v

\* sha1 is taken to be collision-free: the digest is represented by its input.
cacheKey(from, to) ==
    [ns |-> "dash_commute_v3_", id |-> ToLower(from \o <<"|", "|">> \o to)]

\* req.query.from / req.query.to as sent by clients
FromInputs == { <<>>, <<"a">>, <<" ", "A">> }
ToInputs   == { <<"b">>, <<" ">> }

\* const cachedAt = cached?.updated_iso ? Date.parse(cached.updated_iso) : 0;
CachedAt(cached) ==
    IF TruthyStr(UpdatedIsoOf(cached)) THEN DateParse(UpdatedIsoOf(cached)) ELSE Num(0)

\* the freshness test with the bound included: age <= TTL
CommuteFresh_inclusive(cached, now) ==
    TruthyNum(CachedAt(cached)) /\ (now - CachedAt(cached).v) <= TTL_SEC * 1000

\* const fresh = cachedAt && ((Date.now() - cachedAt) / 1000) < TTL_SEC;
\* (the division is exact in JavaScript: x / 1000 < T iff x < T * 1000)
CommuteFresh(cached, now) ==
    TruthyNum(CachedAt(cached)) /\ (now - CachedAt(cached).v) < TTL_SEC * 1000

----------------------------------------------------------------------------
(* api/traffic.js *)

CACHE_KEY_TRAFFIC == [ns |-> "dash_traffic_snapshot_v1", id |-> <<>>]
SNAP_TTL_SEC == 300

\* getRoutes(): the three default routes (routes.slice(0, 3))
TrafficRoutes == {"I90_94", "I290", "I55"}

\* the freshness test that refuses a timestamp in the future: 0 <= age < TTL
TrafficFresh_nonNegative(cached, now) ==
    /\ TruthyNum(CachedAt(cached))
    /\ 0 <= now - CachedAt(cached).v
    /\ (now - CachedAt(cached).v) < SNAP_TTL_SEC * 1000

TrafficFresh(cached, now) ==
    TruthyNum(CachedAt(cached)) /\ (now - CachedAt(cached).v) < SNAP_TTL_SEC * 1000

----------------------------------------------------------------------------
(* api/markets.js *)

CACHE_KEY == [ns |-> "last_valid_markets_data", id |-> <<>>]

HISTORY_TTL_MS == 6 * 60 * 60 * 1000
HISTORY_KEY(sym) == [ns |-> "hist_5d_", id |-> <<sym>>]

\* const syms = ["SPY", "QQQ", "IAU", "SLV"];
syms == {"SPY", "QQQ", "IAU", "SLV"}

\* quote() and getOrRefreshHistory() treat every symbol alike: when one call
\* of a Promise.all over the symbols rejects, it is the call for this one.
Faulty == {"QQQ"}

\* the symbols of the two-symbol handler
syms2 == {"SPY", "IAU"}

\* const TZ = "America/Chicago": civil time there is UTC-6 (CST)
ChicagoCivil(now) == (now - 6 * HourMs) % WeekMs

\* Intl.DateTimeFormat("en-US", {timeZone: TZ, weekday: "short", hour: "2-digit",
\* hour12: false}).formatToParts(now): the civil weekday (Sun = 0) and hour
\* of `now` in America/Chicago.  (An engine that prints midnight as "24"
\* gives the same verdict below: neither 0 nor 24 lies in [9, 17).)
ChicagoWeekday(now) == ChicagoCivil(now) \div DayMs
ChicagoHour(now)    == (ChicagoCivil(now) \div HourMs) % 24

\* the window test with 17:00 hours included
marketHoursNow_through17(now) ==
    LET dayOfWeek == ChicagoWeekday(now)
        hour      == ChicagoHour(now)
        isWeekday == dayOfWeek >= 1 /\ dayOfWeek <= 5
    IN  isWeekday /\ hour >= 9 /\ hour <= 17

marketHoursNow(now) ==
    LET dayOfWeek == ChicagoWeekday(now)
        hour      == ChicagoHour(now)
        isWeekday == dayOfWeek >= 1 /\ dayOfWeek <= 5
    IN  isWeekday /\ hour >= 9 /\ hour < 17

\* the same computation inline in the two-symbol handler
isMarketHours2(now) ==
    LET dayOfWeek == ChicagoWeekday(now)
        hour      == ChicagoHour(now)
        isWeekday == dayOfWeek >= 1 /\ dayOfWeek <= 5
    IN  isWeekday /\ hour >= 9 /\ hour < 17

\* a quote() result, and the null of the "no previous data" result
Quote(p)  == [kind |-> "quote", price |-> p]
NullQuote == [kind |-> "null", price |-> 0]

\* the slice without the reversal
lastNTradingDays_newestFirst(valuesNewestFirst, n) ==
    LET m == IF Len(valuesNewestFirst) < n THEN Len(valuesNewestFirst) ELSE n
    IN  SubSeq(valuesNewestFirst, 1, m)

\* valuesNewestFirst.slice(0, n).reverse()
lastNTradingDays(valuesNewestFirst, n) ==
    LET m == IF Len(valuesNewestFirst) < n THEN Len(valuesNewestFirst) ELSE n
    IN  [i \in 1..m |-> valuesNewestFirst[m + 1 - i]]

\* what timeSeriesDaily(sym, 12) can resolve to: closes newest-first, named
\* by the ordinal of their trading day
RawSeries == { <<>>, <<7, 6, 5, 4, 3, 2, 1>> }

\* cached?.cached_at
CachedAtIsoOf(cached) ==
    IF cached = Absent \/ "cached_at" \notin DOMAIN cached THEN Null
    ELSE cached.cached_at

\* const cachedAt = cached?.cached_at ? Date.parse(cached.cached_at) : 0;
HistoryCachedAt(cached) ==
    IF TruthyStr(CachedAtIsoOf(cached)) THEN DateParse(CachedAtIsoOf(cached)) ELSE Num(0)

\* the age test with the bound included
HistoryAgeOk_inclusive(cached, now) ==
    TruthyNum(HistoryCachedAt(cached)) /\ (now - HistoryCachedAt(cached).v) <= HISTORY_TTL_MS

\* const ageOk = cachedAt && (Date.now() - cachedAt) < HISTORY_TTL_MS;
HistoryAgeOk(cached, now) ==
    TruthyNum(HistoryCachedAt(cached)) /\ (now - HistoryCachedAt(cached).v) < HISTORY_TTL_MS

\* the serve test without the length test: an empty array is served
HistoryServable_anySeries(cached, now) ==
    /\ cached # Absent
    /\ HistoryAgeOk(cached, now)
    /\ "series" \in DOMAIN cached

\* cached && ageOk && Array.isArray(cached.series) && cached.series.length
HistoryServable(cached, now) ==
    /\ cached # Absent
    /\ HistoryAgeOk(cached, now)
    /\ "series" \in DOMAIN cached
    /\ Len(cached.series) > 0

\* {...a, ...b}
Spread(a, b) ==
    [f \in DOMAIN a \cup DOMAIN b |-> IF f \in DOMAIN b THEN b[f] ELSE a[f]]

\* if (!history || !history.SPY || !history.IAU)
NeedsBackfill(cached) ==
    \/ "history" \notin DOMAIN cached
    \/ "SPY" \notin DOMAIN cached.history
    \/ "IAU" \notin DOMAIN cached.history

----------------------------------------------------------------------------
(* Store keys *)

CommuteKeys ==
    { cacheKey(clampLen(f, 160), clampLen(t, 160)) :
        f \in {x \in FromInputs : clampLen(x, 160) # <<>>},
        t \in {x \in ToInputs : clampLen(x, 160) # <<>>} }

Keys == CommuteKeys \cup {CACHE_KEY_TRAFFIC, CACHE_KEY} \cup {HISTORY_KEY(sym) : sym \in syms}

----------------------------------------------------------------------------
(* Requests *)

NoRes == [status |-> 0]
ErrorBody == [kind |-> "error"]

NoLoc == [id |-> 0]

NoObs ==
    [ reads    |-> {},      \* keys this request called kv.get on
      calls    |-> {},      \* upstream fetches this request issued
      issued   |-> {},      \* keys this request called kv.set on
      wrote    |-> {},      \* keys the store holds a write of this request under
      upFailed |-> {},      \* upstream fetches that failed
      getFailed |-> {},     \* keys whose kv.get rejected
      setFailed |-> {},     \* keys whose kv.set rejected
      gate     |-> [checked |-> FALSE, present |-> FALSE, valid |-> FALSE,
                    age |-> 0, served |-> FALSE] ]

\* Date.now() on the instance serving r
Now(r) == clock + skew[r]

Respond(r, status, body) == res' = [res EXCEPT ![r] = [status |-> status, body |-> body]]

\* what the freshness check of a primary snapshot saw and decided
Gate(cached, now, served) ==
    [ checked |-> TRUE,
      present |-> cached # Absent,
      valid   |-> TruthyNum(CachedAt(cached)),
      age     |-> IF TruthyNum(CachedAt(cached)) THEN now - CachedAt(cached).v ELSE 0,
      served  |-> served ]

Init ==
    /\ clock = Tue10
    /\ kv = [k \in Keys |-> Absent]
    /\ pc = [r \in Req |-> "idle"]
    /\ ep = [r \in Req |-> "none"]
    /\ loc = [r \in Req |-> NoLoc]
    /\ res = [r \in Req |-> NoRes]
    /\ pending = {}
    /\ obs = [r \in Req |-> NoObs]
    /\ started = 0
    /\ family \in Families
    /\ skew \in {f \in [Req -> Skews] : f["h1"] = 0 /\ (family \in {"markets2", "markets"} => \A h \in Req : f[h] = 0)}
    /\ probe = <<>>

Tick ==
    /\ \E t \in TimePoints(family) : t > clock /\ clock' = t
    /\ UNCHANGED <<kv, pc, ep, loc, res, pending, obs, started, skew, family, probe>>

----------------------------------------------------------------------------
(* The store settling a dispatched, un-awaited kv.set: kv.set(...).catch()  *)

\* the host still serving the request that dispatched w, if any
Owner(w) == {r \in Req : loc[r].id = w.by}

WriteApplied(w) ==
    /\ kv' = [kv EXCEPT ![w.key] = w.val]
    /\ pending' = pending \ {w}
    /\ obs' = [r \in Req |->
                 IF r \in Owner(w)
                 THEN [obs[r] EXCEPT !.wrote = @ \cup {w.key}]
                 ELSE obs[r]]
    /\ UNCHANGED <<clock, pc, ep, loc, res, started, skew, family, probe>>

\* the rejection is swallowed by .catch(): nothing else happens
WriteRejected(w) ==
    /\ pending' = pending \ {w}
    /\ obs' = [r \in Req |->
                 IF r \in Owner(w)
                 THEN [obs[r] EXCEPT !.setFailed = @ \cup {w.key}]
                 ELSE obs[r]]
    /\ UNCHANGED <<clock, kv, pc, ep, loc, res, started, skew, family, probe>>

----------------------------------------------------------------------------
(* Requests arriving and leaving *)

\* a request arrives at host r and gets the next request id
Receive(r, fam, endpoint, first, locals) ==
    /\ pc[r] = "idle"
    /\ r = "h2" => pc["h1"] # "idle"
    /\ family = fam
    /\ started < MaxReq
    /\ started' = started + 1
    /\ ep' = [ep EXCEPT ![r] = endpoint]
    /\ pc' = [pc EXCEPT ![r] = first]
    /\ loc' = [loc EXCEPT ![r] = locals]

\* the catch block of a handler: a 500 response
Fail(r) ==
    /\ Respond(r, 500, ErrorBody)
    /\ pc' = [pc EXCEPT ![r] = "done"]

\* the client has its response; the host is free for the next request
Retire(r) ==
    /\ pc[r] = "done"
    /\ \A w \in pending : w.by # loc[r].id
    /\ pc' = [pc EXCEPT ![r] = "idle"]
    /\ ep' = [ep EXCEPT ![r] = "none"]
    /\ loc' = [loc EXCEPT ![r] = NoLoc]
    /\ res' = [res EXCEPT ![r] = NoRes]
    /\ obs' = [obs EXCEPT ![r] = NoObs]
    /\ UNCHANGED <<clock, kv, pending, started, skew, family, probe>>

\* the four-symbol version of api/markets.js is deployed over the two-symbol one
Upgrade ==
    /\ family = "markets2"
    /\ family' = "markets"
    /\ UNCHANGED <<clock, kv, pc, ep, loc, res, pending, obs, started, skew, probe>>

----------------------------------------------------------------------------
(* api/commute.js handler *)

\* the handler reading the store before it validates the parameters
Commute_Start_readsFirst(r) ==
    /\ \E from \in FromInputs, to \in ToInputs :
         LET fromRaw == clampLen(from, 160)
             toRaw   == clampLen(to, 160)
         IN  IF fromRaw = <<>> \/ toRaw = <<>>
             THEN /\ Receive(r, "commute", "commute", "done",
                             [id |-> started + 1, from |-> from, to |-> to])
                  /\ Respond(r, 400, ErrorBody)
                  /\ obs' = [obs EXCEPT ![r].reads = @ \cup {cacheKey(fromRaw, toRaw)}]
             ELSE /\ Receive(r, "commute", "commute", "c_get",
                             [id |-> started + 1, key |-> cacheKey(fromRaw, toRaw)])
                  /\ obs' = [obs EXCEPT ![r].reads = @ \cup {cacheKey(fromRaw, toRaw)}]
                  /\ res' = res
    /\ UNCHANGED <<clock, kv, pending, skew, family, probe>>

\* lines 172-179: validation, key derivation, kv.get issued
Commute_Start(r) ==
    /\ \E from \in FromInputs, to \in ToInputs :
         LET fromRaw == clampLen(from, 160)
             toRaw   == clampLen(to, 160)
         IN  IF fromRaw = <<>> \/ toRaw = <<>>
             THEN /\ Receive(r, "commute", "commute", "done",
                             [id |-> started + 1, from |-> from, to |-> to])
                  /\ Respond(r, 400, ErrorBody)
                  /\ obs' = obs
             ELSE /\ Receive(r, "commute", "commute", "c_get",
                             [id |-> started + 1, key |-> cacheKey(fromRaw, toRaw)])
                  /\ obs' = [obs EXCEPT ![r].reads = @ \cup {cacheKey(fromRaw, toRaw)}]
                  /\ res' = res
    /\ UNCHANGED <<clock, kv, pending, skew, family, probe>>

\* the handler with a missing entry answered as an error
Commute_Get_absentFails(r) ==
    /\ pc[r] = "c_get"
    /\ LET cached == kv[loc[r].key]
           fresh  == CommuteFresh(cached, Now(r))
       IN  /\ obs' = [obs EXCEPT ![r].gate = Gate(cached, Now(r), cached # Absent /\ fresh)]
           /\ IF cached = Absent
              THEN Fail(r)
              ELSE IF fresh
              THEN /\ Respond(r, 200, cached)
                   /\ pc' = [pc EXCEPT ![r] = "done"]
              ELSE /\ pc' = [pc EXCEPT ![r] = "c_search"]
                   /\ res' = res
    /\ UNCHANGED <<clock, kv, ep, loc, pending, started, skew, family, probe>>

\* the handler answering an error when the stored entry has no timestamp it
\* can read
Commute_Get_malformedFails(r) ==
    /\ pc[r] = "c_get"
    /\ LET cached == kv[loc[r].key]
           fresh  == CommuteFresh(cached, Now(r))
       IN  /\ obs' = [obs EXCEPT ![r].gate = Gate(cached, Now(r), cached # Absent /\ fresh)]
           /\ IF cached # Absent /\ CachedAt(cached).v = 0
              THEN Fail(r)
              ELSE IF cached # Absent /\ fresh
              THEN /\ Respond(r, 200, cached)
                   /\ pc' = [pc EXCEPT ![r] = "done"]
              ELSE /\ pc' = [pc EXCEPT ![r] = "c_search"]
                   /\ res' = res
    /\ UNCHANGED <<clock, kv, ep, loc, pending, started, skew, family, probe>>

\* await kv.get(key) resolves; lines 181-190
Commute_Get(r) ==
    /\ pc[r] = "c_get"
    /\ LET cached == kv[loc[r].key]
           fresh  == CommuteFresh(cached, Now(r))
       IN  /\ obs' = [obs EXCEPT ![r].gate = Gate(cached, Now(r), cached # Absent /\ fresh)]
           /\ IF cached # Absent /\ fresh
              THEN /\ Respond(r, 200, cached)
                   /\ pc' = [pc EXCEPT ![r] = "done"]
              ELSE /\ pc' = [pc EXCEPT ![r] = "c_search"]
                   /\ res' = res
    /\ UNCHANGED <<clock, kv, ep, loc, pending, started, skew, family, probe>>

\* await kv.get(key) rejects: caught at line 205
Commute_GetFails(r) ==
    /\ pc[r] = "c_get"
    /\ obs' = [obs EXCEPT ![r].getFailed = @ \cup {loc[r].key}]
    /\ Fail(r)
    /\ UNCHANGED <<clock, kv, ep, loc, pending, started, skew, family, probe>>

CommuteSearches == {<<"searchOne", "from">>, <<"searchOne", "to">>}

\* await Promise.all([searchOne(fromQ), searchOne(toQ)]) resolves; line 192
Commute_Search(r) ==
    /\ pc[r] = "c_search"
    /\ obs' = [obs EXCEPT ![r].calls = @ \cup CommuteSearches]
    /\ loc' = [loc EXCEPT ![r] = [id |-> loc[r].id, key |-> loc[r].key,
                                 fromPos |-> loc[r].id, toPos |-> loc[r].id]]
    /\ pc' = [pc EXCEPT ![r] = "c_route"]
    /\ UNCHANGED <<clock, kv, ep, res, pending, started, skew, family, probe>>

\* the Promise.all rejects with the first search that fails: caught at line 205
Commute_SearchFails(r) ==
    /\ pc[r] = "c_search"
    /\ \E f \in CommuteSearches :
         obs' = [obs EXCEPT ![r].calls = @ \cup CommuteSearches,
                            ![r].upFailed = @ \cup {f}]
    /\ Fail(r)
    /\ UNCHANGED <<clock, kv, ep, loc, pending, started, skew, family, probe>>

\* the snapshot merged into the entry the store holds: the positions of
\* the stored entry are kept and only the route is replaced
CommuteOut_keepsCached(r) ==
    LET cached == kv[loc[r].key]
    IN  [ kind        |-> "commute",
          updated_iso |-> Iso(Now(r)),
          from        |-> IF cached # Absent THEN cached.from ELSE loc[r].fromPos,
          to          |-> IF cached # Absent THEN cached.to ELSE loc[r].toPos,
          route       |-> loc[r].id ]

\* the snapshot of lines 195-200
CommuteOut(r) ==
    [ kind        |-> "commute",
      updated_iso |-> Iso(Now(r)),
      from        |-> loc[r].fromPos,
      to          |-> loc[r].toPos,
      route       |-> loc[r].id ]

\* the handler awaiting kv.set before it responds: the write is dispatched
\* and the response is held back
Commute_Route_awaitsSet(r) ==
    /\ pc[r] = "c_route"
    /\ obs' = [obs EXCEPT ![r].calls = @ \cup {<<"tomtomRoute">>},
                          ![r].issued = @ \cup {loc[r].key}]
    /\ pending' = pending \cup {[by |-> loc[r].id, key |-> loc[r].key, val |-> CommuteOut(r)]}
    /\ pc' = [pc EXCEPT ![r] = "done"]
    /\ UNCHANGED <<clock, kv, ep, loc, res, started, skew, family, probe>>

\* await tomtomRoute(fromPos, toPos) resolves; lines 195-204:
\* kv.set is dispatched, not awaited, and the response is sent
Commute_Route(r) ==
    /\ pc[r] = "c_route"
    /\ obs' = [obs EXCEPT ![r].calls = @ \cup {<<"tomtomRoute">>},
                          ![r].issued = @ \cup {loc[r].key}]
    /\ pending' = pending \cup {[by |-> loc[r].id, key |-> loc[r].key, val |-> CommuteOut(r)]}
    /\ Respond(r, 200, CommuteOut(r))
    /\ pc' = [pc EXCEPT ![r] = "done"]
    /\ UNCHANGED <<clock, kv, ep, loc, started, skew, family, probe>>

\* the handler storing the positions it has when the route fetch fails
Commute_RouteFails_storesPartial(r) ==
    /\ pc[r] = "c_route"
    /\ obs' = [obs EXCEPT ![r].calls = @ \cup {<<"tomtomRoute">>},
                          ![r].upFailed = @ \cup {<<"tomtomRoute">>},
                          ![r].issued = @ \cup {loc[r].key}]
    /\ pending' = pending \cup
          {[by |-> loc[r].id, key |-> loc[r].key,
            val |-> [kind |-> "commute", updated_iso |-> Iso(Now(r)),
                     from |-> loc[r].fromPos, to |-> loc[r].toPos, route |-> 0]]}
    /\ Fail(r)
    /\ UNCHANGED <<clock, kv, ep, loc, started, skew, family, probe>>

\* await tomtomRoute(fromPos, toPos) rejects: caught at line 205
Commute_RouteFails(r) ==
    /\ pc[r] = "c_route"
    /\ obs' = [obs EXCEPT ![r].calls = @ \cup {<<"tomtomRoute">>},
                          ![r].upFailed = @ \cup {<<"tomtomRoute">>}]
    /\ Fail(r)
    /\ UNCHANGED <<clock, kv, ep, loc, pending, started, skew, family, probe>>

----------------------------------------------------------------------------
(* api/traffic.js handler *)

\* line 106: kv.get issued
Traffic_Start(r) ==
    /\ Receive(r, "traffic", "traffic", "t_get", [id |-> started + 1, key |-> CACHE_KEY_TRAFFIC])
    /\ obs' = [obs EXCEPT ![r].reads = @ \cup {CACHE_KEY_TRAFFIC}]
    /\ UNCHANGED <<clock, kv, res, pending, skew, family, probe>>

\* the handler stamping the stored snapshot with the current time as it
\* serves it
Traffic_Get_restamps(r) ==
    /\ pc[r] = "t_get"
    /\ LET cached == kv[CACHE_KEY_TRAFFIC]
           cacheFresh == TrafficFresh(cached, Now(r))
       IN  /\ obs' = [obs EXCEPT ![r].gate = Gate(cached, Now(r), cached # Absent /\ cacheFresh)]
           /\ IF cached # Absent /\ cacheFresh
              THEN /\ Respond(r, 200, Spread(cached, [updated_iso |-> Iso(Now(r))]))
                   /\ pc' = [pc EXCEPT ![r] = "done"]
              ELSE /\ pc' = [pc EXCEPT ![r] = "t_routes"]
                   /\ res' = res
    /\ UNCHANGED <<clock, kv, ep, loc, pending, started, skew, family, probe>>

\* await kv.get(CACHE_KEY) resolves; lines 107-114
Traffic_Get(r) ==
    /\ pc[r] = "t_get"
    /\ LET cached == kv[CACHE_KEY_TRAFFIC]
           cacheFresh == TrafficFresh(cached, Now(r))
       IN  /\ obs' = [obs EXCEPT ![r].gate = Gate(cached, Now(r), cached # Absent /\ cacheFresh)]
           /\ IF cached # Absent /\ cacheFresh
              THEN /\ Respond(r, 200, cached)
                   /\ pc' = [pc EXCEPT ![r] = "done"]
              ELSE /\ pc' = [pc EXCEPT ![r] = "t_routes"]
                   /\ res' = res
    /\ UNCHANGED <<clock, kv, ep, loc, pending, started, skew, family, probe>>

\* await kv.get(CACHE_KEY) rejects: caught at line 132
Traffic_GetFails(r) ==
    /\ pc[r] = "t_get"
    /\ obs' = [obs EXCEPT ![r].getFailed = @ \cup {CACHE_KEY_TRAFFIC}]
    /\ Fail(r)
    /\ UNCHANGED <<clock, kv, ep, loc, pending, started, skew, family, probe>>

TrafficFetches == {<<"tomtomRoute", rt>> : rt \in TrafficRoutes}

\* line 128
TrafficOut(r) ==
    [ kind        |-> "traffic",
      updated_iso |-> Iso(Now(r)),
      routes      |-> [rt \in TrafficRoutes |-> loc[r].id] ]

\* await Promise.all(routes.slice(0, 3).map(...)) resolves; lines 116-130
Traffic_Routes(r) ==
    /\ pc[r] = "t_routes"
    /\ obs' = [obs EXCEPT ![r].calls = @ \cup TrafficFetches,
                          ![r].issued = @ \cup {CACHE_KEY_TRAFFIC}]
    /\ pending' = pending \cup
          {[by |-> loc[r].id, key |-> CACHE_KEY_TRAFFIC, val |-> TrafficOut(r)]}
    /\ Respond(r, 200, TrafficOut(r))
    /\ pc' = [pc EXCEPT ![r] = "done"]
    /\ UNCHANGED <<clock, kv, ep, loc, started, skew, family, probe>>

\* the handler degrading to the stored snapshot when a route fetch fails
Traffic_RoutesFail_servesStale(r) ==
    /\ pc[r] = "t_routes"
    /\ \E f \in TrafficFetches :
         obs' = [obs EXCEPT ![r].calls = @ \cup TrafficFetches,
                            ![r].upFailed = @ \cup {f}]
    /\ IF kv[CACHE_KEY_TRAFFIC] # Absent
       THEN /\ Respond(r, 200, kv[CACHE_KEY_TRAFFIC])
            /\ pc' = [pc EXCEPT ![r] = "done"]
       ELSE Fail(r)
    /\ UNCHANGED <<clock, kv, ep, loc, pending, started, skew, family, probe>>

\* the Promise.all rejects with the first route fetch that fails: line 132
Traffic_RoutesFail(r) ==
    /\ pc[r] = "t_routes"
    /\ \E f \in TrafficFetches :
         obs' = [obs EXCEPT ![r].calls = @ \cup TrafficFetches,
                            ![r].upFailed = @ \cup {f}]
    /\ Fail(r)
    /\ UNCHANGED <<clock, kv, ep, loc, pending, started, skew, family, probe>>

----------------------------------------------------------------------------
(* api/markets.js, the two-symbol handler *)

Quotes2 == {<<"quote", sym>> : sym \in syms2}

\* lines 42-61, then line 86 (quotes issued) or line 105 (kv.get issued)
Markets2_Start(r) ==
    /\ LET now == Now(r) IN
         IF isMarketHours2(now)
         THEN /\ Receive(r, "markets2", "markets2", "m2_quotes",
                         [id |-> started + 1, now |-> now, path |-> "active"])
              /\ obs' = [obs EXCEPT ![r].calls = @ \cup Quotes2]
         ELSE /\ Receive(r, "markets2", "markets2", "m2_get",
                         [id |-> started + 1, now |-> now, path |-> "inactive"])
              /\ obs' = [obs EXCEPT ![r].reads = @ \cup {CACHE_KEY}]
    /\ UNCHANGED <<clock, kv, res, pending, skew, family, probe>>

\* lines 88-96
Markets2Obj(r) ==
    [ updated_iso |-> Iso(loc[r].now),
      in_hours    |-> TRUE,
      symbols     |-> [sym \in syms2 |-> Quote(loc[r].id)] ]

\* await Promise.all([quote("SPY"), quote("IAU")]) resolves; lines 88-100, 125-130
Markets2_Quotes(r) ==
    /\ pc[r] = "m2_quotes"
    /\ obs' = [obs EXCEPT ![r].issued = @ \cup {CACHE_KEY}]
    /\ pending' = pending \cup {[by |-> loc[r].id, key |-> CACHE_KEY, val |-> Markets2Obj(r)]}
    /\ Respond(r, 200, Markets2Obj(r))
    /\ pc' = [pc EXCEPT ![r] = "done"]
    /\ UNCHANGED <<clock, kv, ep, loc, started, skew, family, probe>>

\* the Promise.all rejects with the first quote that fails: line 131
Markets2_QuotesFail(r) ==
    /\ pc[r] = "m2_quotes"
    /\ \E f \in Quotes2 : obs' = [obs EXCEPT ![r].upFailed = @ \cup {f}]
    /\ Fail(r)
    /\ UNCHANGED <<clock, kv, ep, loc, pending, started, skew, family, probe>>

\* await kv.get(CACHE_KEY) resolves; lines 107-130
Markets2_Get(r) ==
    /\ pc[r] = "m2_get"
    /\ LET cached == kv[CACHE_KEY] IN
         IF cached # Absent
         THEN Respond(r, 200, Spread(cached, [in_hours |-> FALSE,
                                              current_fetch_iso |-> Iso(loc[r].now)]))
         ELSE Respond(r, 200, [updated_iso |-> Null,
                               in_hours    |-> FALSE,
                               error       |-> "No previous market data cached",
                               symbols     |-> [sym \in syms2 |-> NullQuote]])
    /\ loc' = [loc EXCEPT ![r] = Spread(@, [cached |-> kv[CACHE_KEY]])]
    /\ pc' = [pc EXCEPT ![r] = "done"]
    /\ UNCHANGED <<clock, kv, ep, pending, obs, started, skew, family, probe>>

\* await kv.get(CACHE_KEY) rejects: line 131
Markets2_GetFails(r) ==
    /\ pc[r] = "m2_get"
    /\ obs' = [obs EXCEPT ![r].getFailed = @ \cup {CACHE_KEY}]
    /\ Fail(r)
    /\ UNCHANGED <<clock, kv, ep, loc, pending, started, skew, family, probe>>

----------------------------------------------------------------------------
(* api/markets.js, the four-symbol handler with the history cache *)

(* getOrRefreshHistory.  The four calls of one Promise.all(syms.map(...))   *)
(* are issued together and advance together: the store answers their        *)
(* kv.get; then, for the calls that refresh, the upstream answers their     *)
(* timeSeriesDaily and the store settles their awaited kv.set.  The first   *)
(* call to reject rejects the Promise.all, which ends the handler in its    *)
(* catch block at once; the other calls are not cancelled and run on.       *)

Task(st, series) == [st |-> st, series |-> series]

InStage(r, st) == {sym \in syms : loc[r].hist[sym].st = st}

\* lines 150, 176, 189: the four getOrRefreshHistory calls start (kv.get issued)
StartHistories(r, locals) ==
    /\ loc' = [loc EXCEPT ![r] =
                 Spread(locals, [hist |-> [sym \in syms |-> Task("get", <<>>)]])]
    /\ pc' = [pc EXCEPT ![r] = "m_hist"]

\* the catch block, entered by the first rejection only
FailOnce(r) ==
    res' = IF res[r] = NoRes
           THEN [res EXCEPT ![r] = [status |-> 500, body |-> ErrorBody]]
           ELSE res

\* lines 78-85 of each call whose kv.get resolved
AfterGet(r, sym) ==
    LET cached == kv[HISTORY_KEY(sym)] IN
      IF HistoryServable(cached, Now(r))
      THEN Task("ok", cached.series)
      ELSE Task("fetch", <<>>)

Refreshing(r, among) == {sym \in among : AfterGet(r, sym).st = "fetch"}

\* every await kv.get(key) resolves
Hist_Get(r) ==
    /\ pc[r] = "m_hist"
    /\ InStage(r, "get") # {}
    /\ loc' = [loc EXCEPT ![r].hist = [sym \in syms |-> AfterGet(r, sym)]]
    /\ obs' = [obs EXCEPT
          ![r].reads = @ \cup {HISTORY_KEY(sym) : sym \in syms},
          ![r].calls = @ \cup {<<"timeSeriesDaily", sym>> : sym \in Refreshing(r, syms)}]
    /\ UNCHANGED <<clock, kv, pc, ep, res, pending, started, skew, family, probe>>

\* the kv.get of call f rejects first, the others resolve
Hist_GetFails(r) ==
    /\ pc[r] = "m_hist"
    /\ InStage(r, "get") # {}
    /\ \E f \in Faulty :
         /\ loc' = [loc EXCEPT ![r].hist =
                      [sym \in syms |->
                         IF sym = f THEN Task("failed", <<>>) ELSE AfterGet(r, sym)]]
         /\ obs' = [obs EXCEPT
               ![r].reads = @ \cup {HISTORY_KEY(sym) : sym \in syms},
               ![r].getFailed = @ \cup {HISTORY_KEY(f)},
               ![r].calls = @ \cup
                   {<<"timeSeriesDaily", sym>> : sym \in Refreshing(r, syms \ {f})}]
    /\ FailOnce(r)
    /\ UNCHANGED <<clock, kv, pc, ep, pending, started, skew, family, probe>>

\* line 89
Refreshed(raw) == Task("ok", lastNTradingDays(raw, 5))

\* line 91: the HistoryEntry written
HistoryEntry(r, raw) == [cached_at |-> Iso(loc[r].now), series |-> lastNTradingDays(raw, 5)]

\* the store after the kv.set of the calls in `done` were applied
HistoryWritten(r, done, raw) ==
    [k \in Keys |->
       IF \E sym \in done : k = HISTORY_KEY(sym) THEN HistoryEntry(r, raw) ELSE kv[k]]

\* every await timeSeriesDaily(sym, 12) and then every await kv.set(key, ...)
\* resolves; lines 88-93
Hist_Refresh(r) ==
    /\ pc[r] = "m_hist"
    /\ InStage(r, "fetch") # {}
    /\ \E raw \in RawSeries :
         /\ loc' = [loc EXCEPT ![r].hist =
                      [sym \in syms |-> IF @[sym].st = "fetch" THEN Refreshed(raw) ELSE @[sym]]]
         /\ kv' = HistoryWritten(r, InStage(r, "fetch"), raw)
    /\ obs' = [obs EXCEPT ![r].issued = @ \cup {HISTORY_KEY(sym) : sym \in InStage(r, "fetch")},
                          ![r].wrote = @ \cup {HISTORY_KEY(sym) : sym \in InStage(r, "fetch")}]
    /\ UNCHANGED <<clock, pc, ep, res, pending, started, skew, family, probe>>

\* the timeSeriesDaily of call f rejects, the only call to reject; the other
\* calls fetch and write, before it or after it
Hist_FetchFails(r) ==
    /\ pc[r] = "m_hist"
    /\ res[r] = NoRes
    /\ \E f \in InStage(r, "fetch") \cap Faulty, raw \in RawSeries :
         /\ loc' = [loc EXCEPT ![r].hist =
                      [sym \in syms |->
                         IF sym = f THEN Task("failed", <<>>)
                         ELSE IF @[sym].st = "fetch" THEN Refreshed(raw) ELSE @[sym]]]
         /\ kv' = HistoryWritten(r, InStage(r, "fetch") \ {f}, raw)
         /\ obs' = [obs EXCEPT
               ![r].issued = @ \cup {HISTORY_KEY(sym) : sym \in InStage(r, "fetch") \ {f}},
               ![r].wrote = @ \cup {HISTORY_KEY(sym) : sym \in InStage(r, "fetch") \ {f}},
               ![r].upFailed = @ \cup {<<"timeSeriesDaily", f>>}]
    /\ FailOnce(r)
    /\ UNCHANGED <<clock, pc, ep, pending, started, skew, family, probe>>

\* every timeSeriesDaily resolves; the awaited kv.set of call f rejects, the
\* only call to reject; the other calls write, before it or after it
Hist_SetFails(r) ==
    /\ pc[r] = "m_hist"
    /\ res[r] = NoRes
    /\ \E f \in InStage(r, "fetch") \cap Faulty, raw \in RawSeries :
         /\ loc' = [loc EXCEPT ![r].hist =
                      [sym \in syms |->
                         IF sym = f THEN Task("failed", <<>>)
                         ELSE IF @[sym].st = "fetch" THEN Refreshed(raw) ELSE @[sym]]]
         /\ kv' = HistoryWritten(r, InStage(r, "fetch") \ {f}, raw)
         /\ obs' = [obs EXCEPT
               ![r].issued = @ \cup {HISTORY_KEY(sym) : sym \in InStage(r, "fetch")},
               ![r].wrote = @ \cup {HISTORY_KEY(sym) : sym \in InStage(r, "fetch") \ {f}},
               ![r].setFailed = @ \cup {HISTORY_KEY(f)}]
    /\ FailOnce(r)
    /\ UNCHANGED <<clock, pc, ep, pending, started, skew, family, probe>>

Quotes4 == {<<"quote", sym>> : sym \in syms}

\* the handler going to the store whatever the hour
Markets_Start_viaStore(r) ==
    /\ Receive(r, "markets", "markets", "m_get",
               [id |-> started + 1, now |-> Now(r), path |-> "inactive"])
    /\ obs' = [obs EXCEPT ![r].reads = @ \cup {CACHE_KEY}]
    /\ UNCHANGED <<clock, kv, res, pending, skew, family, probe>>

\* lines 134-146 (quotes issued) or line 170 (kv.get issued)
Markets_Start(r) ==
    /\ LET now == Now(r) IN
         IF marketHoursNow(now)
         THEN /\ Receive(r, "markets", "markets", "m_quotes",
                         [id |-> started + 1, now |-> now, path |-> "active"])
              /\ obs' = [obs EXCEPT ![r].calls = @ \cup Quotes4]
         ELSE /\ Receive(r, "markets", "markets", "m_get",
                         [id |-> started + 1, now |-> now, path |-> "inactive"])
              /\ obs' = [obs EXCEPT ![r].reads = @ \cup {CACHE_KEY}]
    /\ UNCHANGED <<clock, kv, res, pending, skew, family, probe>>

\* the handler storing the snapshot as soon as the quotes are in, before
\* the histories are awaited
Markets_Quotes_storesEarly(r) ==
    /\ pc[r] = "m_quotes"
    /\ StartHistories(r, Spread(loc[r], [symbols |-> [sym \in syms |-> Quote(loc[r].id)]]))
    /\ obs' = [obs EXCEPT ![r].issued = @ \cup {CACHE_KEY}]
    /\ pending' = pending \cup
          {[by |-> loc[r].id, key |-> CACHE_KEY,
            val |-> [updated_iso |-> Iso(loc[r].now), in_hours |-> TRUE,
                     symbols |-> [sym \in syms |-> Quote(loc[r].id)]]]}
    /\ UNCHANGED <<clock, kv, ep, res, started, skew, family, probe>>

\* await Promise.all(syms.map(s => quote(s))) resolves; lines 147-150
Markets_Quotes(r) ==
    /\ pc[r] = "m_quotes"
    /\ StartHistories(r, Spread(loc[r], [symbols |-> [sym \in syms |-> Quote(loc[r].id)]]))
    /\ UNCHANGED <<clock, kv, ep, res, pending, obs, started, skew, family, probe>>

\* the Promise.all rejects with the first quote that fails: line 211
Markets_QuotesFail(r) ==
    /\ pc[r] = "m_quotes"
    /\ \E f \in Faulty : obs' = [obs EXCEPT ![r].upFailed = @ \cup {<<"quote", f>>}]
    /\ Fail(r)
    /\ UNCHANGED <<clock, kv, ep, loc, pending, started, skew, family, probe>>

\* the served object with the snapshot's timestamp replaced by the current time
ServedObj_restamps(cached, now, history) ==
    Spread(cached, [in_hours |-> FALSE, updated_iso |-> Iso(now),
                    current_fetch_iso |-> Iso(now), history |-> history])

\* lines 180-186
ServedObj(cached, now, history) ==
    Spread(cached, [in_hours |-> FALSE, current_fetch_iso |-> Iso(now), history |-> history])

\* await kv.get(CACHE_KEY) resolves; lines 172-178 and 187-189
Markets_Get(r) ==
    /\ pc[r] = "m_get"
    /\ LET cached == kv[CACHE_KEY] IN
         IF cached # Absent /\ ~NeedsBackfill(cached)
         THEN /\ Respond(r, 200, ServedObj(cached, loc[r].now, cached.history))
              /\ pc' = [pc EXCEPT ![r] = "done"]
              /\ loc' = [loc EXCEPT ![r] = Spread(@, [cached |-> cached])]
         ELSE /\ StartHistories(r, Spread(loc[r],
                     [path |-> IF cached # Absent THEN "cached" ELSE "absent",
                      cached |-> cached]))
              /\ res' = res
    /\ UNCHANGED <<clock, kv, ep, pending, obs, started, skew, family, probe>>

\* await kv.get(CACHE_KEY) rejects: line 211
Markets_GetFails(r) ==
    /\ pc[r] = "m_get"
    /\ obs' = [obs EXCEPT ![r].getFailed = @ \cup {CACHE_KEY}]
    /\ Fail(r)
    /\ UNCHANGED <<clock, kv, ep, loc, pending, started, skew, family, probe>>

Histories(r) == [sym \in syms |-> loc[r].hist[sym].series]

Joined(r) ==
    /\ pc[r] = "m_hist"
    /\ res[r] = NoRes
    /\ \A sym \in syms : loc[r].hist[sym].st = "ok"

\* lines 153-160
MarketsObj(r) ==
    [ updated_iso       |-> Iso(loc[r].now),
      in_hours          |-> TRUE,
      symbols           |-> loc[r].symbols,
      history           |-> Histories(r),
      history_cached_at |-> Iso(loc[r].now) ]

\* await Promise.all(histories) resolves in the active window; lines 151-165, 202-210
Markets_JoinActive(r) ==
    /\ Joined(r)
    /\ loc[r].path = "active"
    /\ obs' = [obs EXCEPT ![r].issued = @ \cup {CACHE_KEY}]
    /\ pending' = pending \cup {[by |-> loc[r].id, key |-> CACHE_KEY, val |-> MarketsObj(r)]}
    /\ Respond(r, 200, MarketsObj(r))
    /\ pc' = [pc EXCEPT ![r] = "done"]
    /\ UNCHANGED <<clock, kv, ep, loc, started, skew, family, probe>>

\* the handler storing the object it serves outside the window
Markets_JoinCached_persists(r) ==
    /\ Joined(r)
    /\ loc[r].path = "cached"
    /\ obs' = [obs EXCEPT ![r].issued = @ \cup {CACHE_KEY}]
    /\ pending' = pending \cup
          {[by |-> loc[r].id, key |-> CACHE_KEY,
            val |-> ServedObj(loc[r].cached, loc[r].now, Histories(r))]}
    /\ Respond(r, 200, ServedObj(loc[r].cached, loc[r].now, Histories(r)))
    /\ pc' = [pc EXCEPT ![r] = "done"]
    /\ UNCHANGED <<clock, kv, ep, loc, started, skew, family, probe>>

\* ... on the backfill of a stored snapshot; lines 177-186, 202-210
Markets_JoinCached(r) ==
    /\ Joined(r)
    /\ loc[r].path = "cached"
    /\ Respond(r, 200, ServedObj(loc[r].cached, loc[r].now, Histories(r)))
    /\ pc' = [pc EXCEPT ![r] = "done"]
    /\ UNCHANGED <<clock, kv, ep, loc, pending, obs, started, skew, family, probe>>

\* the handler answering a missing snapshot as an error
Markets_JoinAbsent_asError(r) ==
    /\ Joined(r)
    /\ loc[r].path = "absent"
    /\ Fail(r)
    /\ UNCHANGED <<clock, kv, ep, loc, pending, obs, started, skew, family, probe>>

\* ... with no snapshot stored; lines 190-198, 202-210
Markets_JoinAbsent(r) ==
    /\ Joined(r)
    /\ loc[r].path = "absent"
    /\ Respond(r, 200, [updated_iso |-> Null,
                        in_hours    |-> FALSE,
                        error       |-> "No previous market data cached",
                        symbols     |-> [sym \in syms |-> NullQuote],
                        history     |-> Histories(r)])
    /\ pc' = [pc EXCEPT ![r] = "done"]
    /\ UNCHANGED <<clock, kv, ep, loc, pending, obs, started, skew, family, probe>>

\* the handler has answered from its catch block and its last
\* getOrRefreshHistory call has settled
Markets_Settled(r) ==
    /\ pc[r] = "m_hist"
    /\ res[r] # NoRes
    /\ \A sym \in syms : loc[r].hist[sym].st \in {"ok", "failed"}
    /\ pc' = [pc EXCEPT ![r] = "done"]
    /\ UNCHANGED <<clock, kv, ep, loc, res, pending, obs, started, skew, family, probe>>

----------------------------------------------------------------------------

Next ==
    \/ Tick
    \/ \E w \in pending : WriteApplied(w)
    \/ \E w \in pending : WriteRejected(w)
    \/ \E r \in Req : Retire(r)
    \/ Upgrade
    \/ \E r \in Req : Commute_Start(r)
    \/ \E r \in Req : Commute_Get(r)
    \/ \E r \in Req : Commute_GetFails(r)
    \/ \E r \in Req : Commute_Search(r)
    \/ \E r \in Req : Commute_SearchFails(r)
    \/ \E r \in Req : Commute_Route(r)
    \/ \E r \in Req : Commute_RouteFails(r)
    \/ \E r \in Req : Traffic_Start(r)
    \/ \E r \in Req : Traffic_Get(r)
    \/ \E r \in Req : Traffic_GetFails(r)
    \/ \E r \in Req : Traffic_Routes(r)
    \/ \E r \in Req : Traffic_RoutesFail(r)
    \/ \E r \in Req : Markets2_Start(r)
    \/ \E r \in Req : Markets2_Quotes(r)
    \/ \E r \in Req : Markets2_QuotesFail(r)
    \/ \E r \in Req : Markets2_Get(r)
    \/ \E r \in Req : Markets2_GetFails(r)
    \/ \E r \in Req : Markets_Start(r)
    \/ \E r \in Req : Markets_Quotes(r)
    \/ \E r \in Req : Markets_QuotesFail(r)
    \/ \E r \in Req : Markets_Get(r)
    \/ \E r \in Req : Markets_GetFails(r)
    \/ \E r \in Req : Hist_Get(r)
    \/ \E r \in Req : Hist_GetFails(r)
    \/ \E r \in Req : Hist_Refresh(r)
    \/ \E r \in Req : Hist_FetchFails(r)
    \/ \E r \in Req : Hist_SetFails(r)
    \/ \E r \in Req : Markets_JoinActive(r)
    \/ \E r \in Req : Markets_JoinCached(r)
    \/ \E r \in Req : Markets_JoinAbsent(r)
    \/ \E r \in Req : Markets_Settled(r)

Spec == Init /\ [][Next]_vars

----------------------------------------------------------------------------
(* The market-hours test on its own: it is applied to the first and the    *)
(* last millisecond of every hour of the week.                             *)

HourProbes ==
    { d * DayMs + h * HourMs + o : d \in 0..6, h \in 0..23, o \in {0, HourMs - 1} }

InitHours ==
    /\ clock \in HourProbes
    /\ kv = [k \in Keys |-> Absent]
    /\ pc = [r \in Req |-> "idle"]
    /\ ep = [r \in Req |-> "none"]
    /\ loc = [r \in Req |-> NoLoc]
    /\ res = [r \in Req |-> NoRes]
    /\ pending = {}
    /\ obs = [r \in Req |-> NoObs]
    /\ started = 0
    /\ family = "markets"
    /\ skew = [r \in Req |-> 0]
    /\ probe = <<>>

\* part_003 line 136: const isMarketHours = marketHoursNow(now);
Probe_marketHoursNow ==
    /\ probe = <<>>
    /\ probe' = <<[fn |-> "marketHoursNow", now |-> clock, out |-> marketHoursNow(clock)]>>
    /\ UNCHANGED <<clock, kv, pc, ep, loc, res, pending, obs, started, skew, family>>

\* api/markets.js line 61: const isMarketHours = isWeekday && hour >= 9 && hour < 17;
Probe_isMarketHours2 ==
    /\ probe = <<>>
    /\ probe' = <<[fn |-> "isMarketHours", now |-> clock, out |-> isMarketHours2(clock)]>>
    /\ UNCHANGED <<clock, kv, pc, ep, loc, res, pending, obs, started, skew, family>>

NextHours == Probe_marketHoursNow \/ Probe_isMarketHours2

SpecHours == InitHours /\ [][NextHours]_vars

----------------------------------------------------------------------------
(* The four-symbol markets handler outside the window, over a store that   *)
(* already holds an entry under the markets key.  The store outlives the   *)
(* deployed code: the entry may have been written by this handler, by the  *)
(* two-symbol handler (no history field), or by a version in between       *)
(* whose snapshots carry the history of some of the symbols only; the      *)
(* probe of line 175 exists for such entries.                              *)

StoredHistories == { {}, {"SPY"}, {"SPY", "IAU"}, syms }

\* a snapshot with the history of the symbols in `have`; none: no history field
StoredSnapshot(have) ==
    IF have = {}
    THEN [ updated_iso |-> Iso(Tue10), in_hours |-> TRUE,
           symbols |-> [sym \in syms2 |-> Quote(0)] ]
    ELSE [ updated_iso |-> Iso(Tue10), in_hours |-> TRUE,
           symbols |-> [sym \in syms |-> Quote(0)],
           history |-> [sym \in have |-> <<3, 4, 5, 6, 7>>],
           history_cached_at |-> Iso(Tue10) ]

InitStored ==
    /\ clock = Tue10 + 10 * HourMs
    /\ \E have \in StoredHistories :
         kv = [k \in Keys |-> IF k = CACHE_KEY THEN StoredSnapshot(have) ELSE Absent]
    /\ pc = [r \in Req |-> "idle"]
    /\ ep = [r \in Req |-> "none"]
    /\ loc = [r \in Req |-> NoLoc]
    /\ res = [r \in Req |-> NoRes]
    /\ pending = {}
    /\ obs = [r \in Req |-> NoObs]
    /\ started = 0
    /\ family = "markets"
    /\ skew = [r \in Req |-> 0]
    /\ probe = <<>>

NextStored ==
    \/ \E r \in Req : Retire(r)
    \/ \E r \in Req : Markets_Start(r)
    \/ \E r \in Req : Markets_Get(r)
    \/ \E r \in Req : Markets_GetFails(r)
    \/ \E r \in Req : Hist_Get(r)
    \/ \E r \in Req : Hist_GetFails(r)
    \/ \E r \in Req : Hist_Refresh(r)
    \/ \E r \in Req : Hist_FetchFails(r)
    \/ \E r \in Req : Hist_SetFails(r)
    \/ \E r \in Req : Markets_JoinCached(r)
    \/ \E r \in Req : Markets_Settled(r)

SpecStored == InitStored /\ [][NextStored]_vars

----------------------------------------------------------------------------
(* The refresh of one history entry on its own: lines 88-91 of             *)
(* getOrRefreshHistory applied to every newest-first series of closes      *)
(* over MaxDays trading days (days without a close are left out).          *)

RECURSIVE NewestFirst(_)
NewestFirst(days) ==
    IF days = {} THEN <<>>
    ELSE LET newest == CHOOSE d \in days : \A e \in days : e <= d
         IN  <<newest>> \o NewestFirst(days \ {newest})

InitSeries ==
    /\ clock \in {Tue10, Tue10 + 6 * HourMs}
    /\ kv = [k \in Keys |-> Absent]
    /\ pc = [r \in Req |-> IF r = "h1" THEN "m_hist" ELSE "idle"]
    /\ ep = [r \in Req |-> IF r = "h1" THEN "markets" ELSE "none"]
    /\ loc = [r \in Req |-> IF r = "h1" THEN [id |-> 1, now |-> Tue10] ELSE NoLoc]
    /\ res = [r \in Req |-> NoRes]
    /\ pending = {}
    /\ obs = [r \in Req |-> NoObs]
    /\ started = 1
    /\ family = "markets"
    /\ skew = [r \in Req |-> 0]
    /\ probe = <<>>

\* const raw = await timeSeriesDaily(sym, 12); const series = lastNTradingDays(raw, 5);
\* await kv.set(key, { cached_at: nowIso, series }); return series;
Probe_Refresh ==
    /\ probe = <<>>
    /\ \E days \in SUBSET (1..MaxDays) :
         LET raw == NewestFirst(days) IN
           /\ probe' = <<[raw |-> raw, series |-> Refreshed(raw).series]>>
           /\ kv' = HistoryWritten("h1", {"SPY"}, raw)
    /\ UNCHANGED <<clock, pc, ep, loc, res, pending, obs, started, skew, family>>

NextSeries == Probe_Refresh

SpecSeries == InitSeries /\ [][NextSeries]_vars

----------------------------------------------------------------------------
(* The key derivation of the commute handler on its own: lines 172-178     *)
(* applied to the query strings of two requests.                           *)

RECURSIVE Rep(_, _)
Rep(s, n) ==
    IF n = 0 THEN <<>>
    ELSE IF n = 1 THEN s
    ELSE Rep(s, n \div 2) \o Rep(s, n - n \div 2)

\* req.query.from of the two requests; <<>> is a missing parameter
\* (String(undefined ?? "") is "")
KeyFroms ==
    { <<>>, <<"a">>, <<" ", "A">>, <<"a", "|", "|", "b">>,
      Rep(<<CapitalIDot>>, 81), Rep(<<"i", CombiningDot>>, 81) }

\* req.query.to of the two requests
KeyTos == { <<"c">>, <<"C", " ">>, <<"b", "|", "|", "c">> }

Rejected == [ns |-> "none"]

InitKeys ==
    /\ clock = Tue10
    /\ kv = [k \in Keys |-> Absent]
    /\ pc = [r \in Req |-> "idle"]
    /\ ep = [r \in Req |-> "commute"]
    /\ loc \in [Req -> [from : KeyFroms, to : KeyTos]]
    /\ res = [r \in Req |-> NoRes]
    /\ pending = {}
    /\ obs = [r \in Req |-> NoObs]
    /\ started = 0
    /\ family = "commute"
    /\ skew = [r \in Req |-> 0]
    /\ probe = <<>>

\* lines 172-178: the key the handler reads the store under, or the 400 of
\* line 175
Probe_cacheKey ==
    /\ probe = <<>>
    /\ probe' = [r \in Req |->
                   LET fromRaw == clampLen(loc[r].from, 160)
                       toRaw   == clampLen(loc[r].to, 160)
                   IN  IF fromRaw = <<>> \/ toRaw = <<>> THEN Rejected
                       ELSE cacheKey(fromRaw, toRaw)]
    /\ UNCHANGED <<clock, kv, pc, ep, loc, res, pending, obs, started, skew, family>>

NextKeys == Probe_cacheKey

SpecKeys == InitKeys /\ [][NextKeys]_vars

----------------------------------------------------------------------------
(* Properties *)

\* r is a commute or traffic request whose freshness check has run
TtlGated(r) == ep[r] \in {"commute", "traffic"} /\ obs[r].gate.checked

\* r has taken the refresh path: it is fetching upstream or has fetched
Refreshes(r) == pc[r] \in {"c_search", "c_route", "t_routes"} \/ obs[r].calls # {}

\* the key of the primary snapshot of r's endpoint
PrimaryKey(r) == IF ep[r] \in {"commute", "traffic"} THEN loc[r].key ELSE CACHE_KEY

\* C1: a stored snapshot whose timestamp lies in the future of the serving
\* host's clock (negative age) is not fresh: it is not served, the request
\* refreshes.
C1_FutureStampIsStale ==
    \A r \in Req :
        (TtlGated(r) /\ obs[r].gate.valid /\ obs[r].gate.age < 0)
            => (~obs[r].gate.served /\ Refreshes(r))

\* C2: with a TTL of 300 s, a stored snapshot of age >= 0 is served as it is
\* stored exactly when its age is below 300 s; at 300 s and beyond the
\* request refreshes.
C2_FreshIffYoungerThanTtl ==
    \A r \in Req :
        (TtlGated(r) /\ obs[r].gate.valid /\ obs[r].gate.age >= 0)
            => IF obs[r].gate.age < 300 * 1000
               THEN /\ obs[r].gate.served
                    /\ obs[r].calls = {}
                    /\ obs[r].issued = {}
                    /\ res[r].status = 200
               ELSE /\ ~obs[r].gate.served
                    /\ Refreshes(r)

\* a request met a snapshot of age exactly 300 s and refreshed
C2_AtTtlRefreshes ==
    \E r \in Req :
        /\ TtlGated(r) /\ obs[r].gate.valid
        /\ obs[r].gate.age = 300 * 1000
        /\ ~obs[r].gate.served
        /\ res[r].status = 200
        /\ PrimaryKey(r) \in obs[r].issued

\* C3: a request that finds no entry under its key (first run) takes the
\* refresh path: it is never answered from the store nor with an error on
\* that account; when its upstream fetches succeed it dispatches the write
\* of the new snapshot and is answered 200.
C3_AbsentRefreshes ==
    \A r \in Req :
        (TtlGated(r) /\ ~obs[r].gate.present)
            => /\ ~obs[r].gate.served
               /\ Refreshes(r)
               /\ pc[r] = "done" =>
                     IF obs[r].upFailed = {}
                     THEN /\ res[r].status = 200
                          /\ UpdatedIsoOf(res[r].body).kind = "iso"
                          /\ IF ep[r] = "commute"
                             THEN res[r].body.route = loc[r].id
                             ELSE res[r].body.routes = [rt \in TrafficRoutes |-> loc[r].id]
                          /\ PrimaryKey(r) \in obs[r].issued
                     ELSE res[r].status = 500

\* a first request was answered 200 with the snapshot it fetched, its write
\* dispatched
C3_FirstRunAnswered ==
    \E r \in Req :
        /\ TtlGated(r) /\ ~obs[r].gate.present
        /\ kv[PrimaryKey(r)] = Absent
        /\ res[r].status = 200
        /\ PrimaryKey(r) \in obs[r].issued

\* the writes of request r that the store has not settled
PendingOf(r) == {w \in pending : w.by = loc[r].id}

\* C4: a request one of whose upstream fetches failed is answered 500 and
\* has called kv.set on its primary key at no point: the primary entry is
\* as the request found it.
C4_UpstreamFailureKeepsPrimary ==
    \A r \in Req :
        obs[r].upFailed # {}
            => /\ res[r] = [status |-> 500, body |-> ErrorBody]
               /\ PrimaryKey(r) \notin (obs[r].issued \cup obs[r].wrote)
               /\ \A w \in PendingOf(r) : w.key # PrimaryKey(r)

\* an upstream fetch failed while the store held an earlier snapshot under
\* the request's key
C4_FailedOverStoredEntry ==
    \E r \in Req :
        /\ obs[r].upFailed # {}
        /\ res[r].status = 500
        /\ kv[PrimaryKey(r)] # Absent

\* C5 as stated: a request answered 500 has performed no write to any key,
\* per-symbol history keys included.
C5_ErrorMeansNoWriteAtAll ==
    \A r \in Req :
        res[r].status = 500 => (obs[r].issued = {} /\ obs[r].wrote = {})

HistoryKeys == {HISTORY_KEY(sym) : sym \in syms}

\* C5 amended: a request answered 500 has dispatched no write of its
\* primary snapshot; the only entries it may have written are complete
\* history entries of the four-symbol markets handler.
C5_ErrorMeansNoPrimaryWrite ==
    \A r \in Req :
        res[r].status = 500
            => /\ PrimaryKey(r) \notin (obs[r].issued \cup obs[r].wrote)
               /\ PendingOf(r) = {}
               /\ obs[r].issued \subseteq HistoryKeys
               /\ obs[r].issued # {} => ep[r] = "markets"
               /\ \A k \in obs[r].wrote :
                     /\ DOMAIN kv[k] = {"cached_at", "series"}
                     /\ kv[k].cached_at.kind = "iso"
                     /\ Len(kv[k].series) <= 5

\* a request answered 500 after history entries of other symbols were written
C5_ErrorAfterHistoryWrite ==
    \E r \in Req :
        /\ res[r].status = 500
        /\ obs[r].wrote # {}
        /\ obs[r].upFailed # {}

\* C6: a rejected kv.set never fails the request: a request whose only
\* failure is a store write (the history write included) is not answered 500.
C6_WriteFailureNeverFailsRequest ==
    \A r \in Req :
        (obs[r].setFailed # {} /\ obs[r].upFailed = {} /\ obs[r].getFailed = {})
            => res[r].status # 500

\* C7: a rejected kv.get is treated as an absent entry: a request whose
\* store read failed is not answered 500 on that account.
C7_ReadFailureIsAbsent ==
    \A r \in Req :
        (obs[r].getFailed # {} /\ obs[r].upFailed = {} /\ obs[r].setFailed = {})
            => res[r].status # 500

\* the primary-snapshot writes
PrimaryWrites(ws) == {w \in ws : w.key \notin HistoryKeys}

\* C8: the write of the primary snapshot is off the response path: the step
\* that dispatches it sends the 200 response carrying the snapshot, and the
\* store settling it later, applied or rejected, leaves every response as
\* it was sent.
C8_WriteOffResponsePath ==
    [][ /\ \A w \in PrimaryWrites(pending' \ pending) :
              \E r \in Req : /\ loc'[r].id = w.by
                              /\ res[r] = NoRes
                              /\ res'[r] = [status |-> 200, body |-> w.val]
        /\ \A w \in PrimaryWrites(pending \ pending') :
              /\ res' = res
              /\ \E r \in Req : /\ loc[r].id = w.by
                                /\ res[r] = [status |-> 200, body |-> w.val]
      ]_vars

\* one request has its response while its write is still pending, another
\* kept its response when the store rejected its write
C8_AnsweredWhilePendingOrRejected ==
    \E r1, r2 \in Req :
        /\ res[r1].status = 200 /\ PrimaryWrites(PendingOf(r1)) # {}
        /\ res[r2].status = 200 /\ PrimaryKey(r2) \in obs[r2].setFailed

\* the instant at which the clocks of America/Chicago (UTC-6) show hour h
\* of weekday d (Sunday = 0)
Chicago(d, h) == d * DayMs + (h + 6) * HourMs

\* Monday to Friday, from 09:00:00.000 up to and not including 17:00:00.000
InWindow(now) ==
    \E d \in 1..5 : Chicago(d, 9) <= now /\ now < Chicago(d, 17)

\* C9: both markets handlers take the window to be active exactly Monday to
\* Friday from 9:00 up to, not including, 17:00 America/Chicago: Tuesday
\* 10:00 is active, Saturday 10:00 and Tuesday 20:00 are not, the hour of 9
\* is active and the hour of 17 is not.
C9_ActiveWindow ==
    \A i \in 1..Len(probe) :
        LET now == probe[i].now
            out == probe[i].out
        IN  /\ out <=> InWindow(now)
            /\ now = Chicago(2, 10) => out
            /\ now \in {Chicago(6, 10), Chicago(2, 20)} => ~out
            /\ \A d \in 1..5 :
                  /\ (Chicago(d, 9) <= now /\ now < Chicago(d, 10)) => out
                  /\ (Chicago(d, 17) <= now /\ now < Chicago(d, 18)) => ~out
                  /\ now = Chicago(d, 9) - 1 => ~out

\* the window test was applied to the last millisecond before Friday 17:00
\* and found the window active
C9_LastActiveInstant ==
    \E i \in 1..Len(probe) :
        /\ probe[i].fn = "marketHoursNow"
        /\ probe[i].now = Chicago(5, 17) - 1
        /\ probe[i].out

\* the symbols a markets handler quotes
SymbolsOf(r) == IF ep[r] = "markets" THEN syms ELSE syms2

\* C10: a markets request that runs inside the active window never reads the
\* primary snapshot; it fetches a quote for every symbol whatever the store
\* holds, and when it is answered 200 the response is its own snapshot with
\* in_hours true, whose write under the markets key it has dispatched.  It
\* is answered 500 exactly when a fetch or a history-cache operation failed.
C10_ActiveAlwaysFetches ==
    \A r \in Req :
        (ep[r] \in {"markets", "markets2"} /\ InWindow(loc[r].now))
            => /\ CACHE_KEY \notin obs[r].reads
               /\ {<<"quote", sym>> : sym \in SymbolsOf(r)} \subseteq obs[r].calls
               /\ res[r].status \in {0, 200, 500}
               /\ pc[r] = "done" => res[r] # NoRes
               /\ res[r].status = 200 =>
                     /\ res[r].body.in_hours
                     /\ res[r].body.updated_iso = Iso(loc[r].now)
                     /\ res[r].body.symbols = [sym \in SymbolsOf(r) |-> Quote(loc[r].id)]
                     /\ CACHE_KEY \in obs[r].issued
               /\ res[r].status = 500 <=>
                     \/ obs[r].upFailed # {}
                     \/ obs[r].getFailed # {}
                     \/ obs[r].setFailed \cap HistoryKeys # {}

\* a request in the active window was answered with the quotes it fetched
\* while the store held another request's snapshot of the same instant
C10_FetchedOverCurrentSnapshot ==
    \E r \in Req :
        /\ ep[r] \in {"markets", "markets2"} /\ InWindow(loc[r].now)
        /\ res[r].status = 200
        /\ kv[CACHE_KEY] # Absent
        /\ kv[CACHE_KEY].updated_iso = Iso(loc[r].now)
        /\ kv[CACHE_KEY].symbols # res[r].body.symbols

\* r is a markets request that runs outside the window
Inactive(r) == ep[r] \in {"markets", "markets2"} /\ ~InWindow(loc[r].now)

\* r has had the answer of its kv.get of the primary snapshot
ReadPrimary(r) == "cached" \in DOMAIN loc[r]

\* C11: outside the window a markets request issues no quote fetch and no
\* write of the markets key, whatever the age of the stored snapshot; when a
\* snapshot is stored, the 200 response carries its symbols and its
\* updated_iso as stored, in_hours false and current_fetch_iso the request's
\* current time.
C11_InactiveServesStored ==
    \A r \in Req :
        Inactive(r)
            => /\ \A c \in obs[r].calls : c[1] # "quote"
               /\ CACHE_KEY \notin (obs[r].issued \cup obs[r].wrote)
               /\ \A w \in PendingOf(r) : w.key # CACHE_KEY
               /\ CACHE_KEY \in obs[r].reads
               /\ (ReadPrimary(r) /\ loc[r].cached # Absent /\ res[r].status = 200) =>
                     /\ res[r].body.symbols = loc[r].cached.symbols
                     /\ res[r].body.updated_iso = loc[r].cached.updated_iso
                     /\ res[r].body.in_hours = FALSE
                     /\ res[r].body.current_fetch_iso = Iso(loc[r].now)

\* a snapshot four or more hours old was served outside the window
C11_OldSnapshotServed ==
    \E r \in Req :
        /\ Inactive(r) /\ ReadPrimary(r) /\ loc[r].cached # Absent
        /\ res[r].status = 200
        /\ res[r].body.updated_iso.kind = "iso"
        /\ loc[r].now - res[r].body.updated_iso.ms >= 4 * HourMs
        /\ res[r].body.current_fetch_iso = Iso(loc[r].now)

\* r is a markets request outside the window that found no snapshot stored
NoPrevious(r) == Inactive(r) /\ ReadPrimary(r) /\ loc[r].cached = Absent

\* the "no previous data" result: 200, updated_iso null, in_hours false, the
\* error marker set and every symbol's value null
Placeholder(r) ==
    /\ res[r].status = 200
    /\ res[r].body.updated_iso = Null
    /\ res[r].body.in_hours = FALSE
    /\ res[r].body.error = "No previous market data cached"
    /\ res[r].body.symbols = [sym \in SymbolsOf(r) |-> NullQuote]

Resolves(r, sym) ==
    /\ pc[r] = "m_hist"
    /\ loc[r].hist[sym].st = "get"
    /\ loc'[r].hist[sym].st \in {"ok", "fetch"}

\* the age, at that step, of a stored history entry
AgeOf(r, entry) == Now(r) - entry.cached_at.ms

Elements(seq) == {seq[i] : i \in 1..Len(seq)}

\* C15: the series a refresh returns and stores has min(5, length) points:
\* they are the most recent points of the upstream series, oldest first;
\* the entry is stored with cached_at the request's timestamp.
C15_LastFiveOldestFirst ==
    \A p \in 1..Len(probe) :
        LET raw    == probe[p].raw
            series == probe[p].series
        IN  /\ Len(series) = IF Len(raw) < 5 THEN Len(raw) ELSE 5
            /\ \A i, j \in 1..Len(series) : i < j => series[i] < series[j]
            /\ Elements(series) =
                  {d \in Elements(raw) : Cardinality({e \in Elements(raw) : e > d}) < 5}
            /\ kv[HISTORY_KEY("SPY")] = [cached_at |-> Iso(loc["h1"].now), series |-> series]

\* a series of seven closes was cut to the last five, oldest first
C15_SevenCutToFive ==
    \E p \in 1..Len(probe) :
        /\ probe[p].raw = <<7, 6, 5, 4, 3, 2, 1>>
        /\ probe[p].series = <<3, 4, 5, 6, 7>>
        /\ kv[HISTORY_KEY("SPY")].series = <<3, 4, 5, 6, 7>>
        /\ clock # loc["h1"].now

\* the keys of the TTL-gated endpoints
TtlKeys == CommuteKeys \cup {CACHE_KEY_TRAFFIC}

\* C16: a commute or traffic request that finds a fresh snapshot answers
\* with the stored value, which is what the refresh cycle that wrote it
\* answered to its own client, and it fetches nothing and writes nothing.
\*   - a stored value changes only to the body a refresh cycle has answered;
\*   - the step that serves answers 200 with the stored value, and leaves
\*     the store and the dispatched writes as they are;
\*   - a served request has no fetch and no write to its name.
C16_FreshRoundTrip ==
    [][ /\ \A k \in TtlKeys :
             kv'[k] # kv[k] =>
               \E w \in Req : /\ ep[w] \in {"commute", "traffic"}
                               /\ obs[w].calls # {}
                               /\ loc[w].key = k
                               /\ res[w] = [status |-> 200, body |-> kv'[k]]
        /\ \A r \in Req :
             (~obs[r].gate.served /\ obs'[r].gate.served) =>
               /\ ep[r] \in {"commute", "traffic"}
               /\ res'[r] = [status |-> 200, body |-> kv[loc[r].key]]
               /\ kv' = kv
               /\ pending' = pending
        /\ \A r \in Req :
             obs'[r].gate.served =>
               /\ obs'[r].calls = {}
               /\ obs'[r].issued = {} /\ obs'[r].wrote = {}
               /\ PendingOf(r)' = {}
      ]_vars

\* a traffic request was answered with the snapshot another request had
\* fetched, and fetched nothing itself
C16_ServedAnothersSnapshot ==
    \E r \in Req :
        /\ ep[r] = "traffic" /\ obs[r].gate.served
        /\ res[r].status = 200
        /\ res[r].body = kv[CACHE_KEY_TRAFFIC]
        /\ \A rt \in TrafficRoutes : res[r].body.routes[rt] # loc[r].id
        /\ obs[r].calls = {}

\* v is one whole snapshot, every field of which one refresh cycle fetched
OneCycle(v) ==
    /\ v # Absent
    /\ v.updated_iso.kind = "iso"
    /\ IF v.kind = "commute"
       THEN v.from = v.route /\ v.to = v.route
       ELSE \A a, b \in TrafficRoutes : v.routes[a] = v.routes[b]

\* the upstream fetches of one whole refresh cycle of r's endpoint
OwnFetches(r) ==
    IF ep[r] = "commute" THEN CommuteSearches \cup {<<"tomtomRoute">>} ELSE TrafficFetches

\* the snapshot r assembled from its own fetches
OwnSnapshot(r, v) ==
    IF ep[r] = "commute" THEN v.route = loc[r].id ELSE \A rt \in TrafficRoutes : v.routes[rt] = loc[r].id

\* C17: requests racing on one key do not coordinate. Each request whose
\* freshness check said stale runs a refresh cycle of its own: when it has
\* finished with 200 it has issued every fetch of the cycle itself, answered
\* with the snapshot it assembled and called kv.set with it, and it has
\* finished otherwise only because a fetch of its own failed. A write that
\* reaches the store replaces the entry whole, whatever the entry was, and the
\* entry changes in no other way; so the entry is at every moment absent or one
\* whole snapshot of a single cycle.
C17_LastWriteWinsWhole ==
    [][ /\ \A r \in Req :
             (TtlGated(r)' /\ ~obs'[r].gate.served /\ pc'[r] = "done") =>
               IF res'[r].status = 200
               THEN /\ obs'[r].calls = OwnFetches(r)'
                    /\ loc'[r].key \in obs'[r].issued
                    /\ OneCycle(res[r].body)' /\ OwnSnapshot(r, res[r].body)'
               ELSE obs'[r].upFailed # {} /\ obs'[r].issued = {}
        /\ \A w \in pending \ pending' :
             w.key \in TtlKeys =>
               \/ kv' = [kv EXCEPT ![w.key] = w.val]
               \/ kv' = kv
        /\ \A k \in TtlKeys :
             /\ kv'[k] # kv[k] => \E w \in pending \ pending' : w.key = k /\ kv'[k] = w.val
             /\ kv'[k] = Absent \/ OneCycle(kv'[k])
      ]_vars

\* two requests found the commute entry stale, each fetched and each wrote,
\* and the write of the request that arrived first reached the store last
C17_EarlierWriteLandsLast ==
    /\ ep["h1"] = "commute" /\ ep["h2"] = "commute"
    /\ \A r \in Req : /\ obs[r].gate.checked /\ ~obs[r].gate.served
                       /\ obs[r].calls = OwnFetches(r)
                       /\ loc[r].key \in obs[r].wrote
    /\ loc["h1"].key = loc["h2"].key
    /\ loc["h1"].id < loc["h2"].id
    /\ kv[loc["h1"].key].route = loc["h1"].id
    /\ OneCycle(kv[loc["h1"].key])

----------------------------------------------------------------------------
(* The freshness tests on their own: commute.js lines 181-182, traffic     *)
(* lines 108-109 and getOrRefreshHistory lines 80-83, applied to one       *)
(* stored entry at two instants.                                           *)

----------------------------------------------------------------------------
(* api/weather.js.  The handler holds no reference to the store: every     *)
(* request that reaches it goes upstream.  The Cache-Control header of     *)
(* line 145 addresses caches in front of the handler, which are not part   *)
(* of this program.                                                        *)

----------------------------------------------------------------------------
(* getOrRefreshHistory over history entries that are already stored, four  *)
(* hours old: whole ones, ones whose series is the empty array, and ones    *)
(* whose series is no array (the field is missing).  The requests run       *)
(* outside the window over an empty markets key, so that every request      *)
(* makes the four calls (line 189).                                         *)

HistorySeeds ==
    { [cached_at |-> Iso(Tue10 + 6 * HourMs)],
      [cached_at |-> Iso(Tue10 + 6 * HourMs), series |-> <<>>],
      [cached_at |-> Iso(Tue10 + 6 * HourMs), series |-> <<3, 4, 5, 6, 7>>] }

InitHistory ==
    /\ clock = Tue10 + 10 * HourMs
    /\ \E spy \in HistorySeeds, qqq \in HistorySeeds :
         kv = [k \in Keys |->
                 IF k = HISTORY_KEY("SPY") THEN spy
                 ELSE IF k = HISTORY_KEY("QQQ") THEN qqq
                 ELSE IF k \in {HISTORY_KEY("IAU"), HISTORY_KEY("SLV")}
                 THEN [cached_at |-> Iso(Tue10 + 6 * HourMs), series |-> <<3, 4, 5, 6, 7>>]
                 ELSE Absent]
    /\ pc = [r \in Req |-> "idle"]
    /\ ep = [r \in Req |-> "none"]
    /\ loc = [r \in Req |-> NoLoc]
    /\ res = [r \in Req |-> NoRes]
    /\ pending = {}
    /\ obs = [r \in Req |-> NoObs]
    /\ started = 0
    /\ family = "markets"
    /\ skew = [r \in Req |-> 0]
    /\ probe = <<>>

NextHistory ==
    \/ \E r \in Req : Retire(r)
    \/ \E r \in Req : Markets_Start(r)
    \/ \E r \in Req : Markets_Get(r)
    \/ \E r \in Req : Markets_GetFails(r)
    \/ \E r \in Req : Hist_Get(r)
    \/ \E r \in Req : Hist_GetFails(r)
    \/ \E r \in Req : Hist_Refresh(r)
    \/ \E r \in Req : Hist_FetchFails(r)
    \/ \E r \in Req : Hist_SetFails(r)
    \/ \E r \in Req : Markets_JoinAbsent(r)
    \/ \E r \in Req : Markets_Settled(r)

SpecHistory == InitHistory /\ [][NextHistory]_vars

----------------------------------------------------------------------------
(* The commute and the traffic handler over a store whose entry has no     *)
(* timestamp the handler can read: the store is shared and outlives the     *)
(* deployed code, so an entry need not have been written by this handler.   *)

\* the entry without an updated_iso field, and with one that is no date
MalformedEntries(kind) ==
    { [kind |-> kind, route |-> 0],
      [kind |-> kind, route |-> 0, updated_iso |-> BadString] }

InitMalformed ==
    /\ clock = Tue10
    /\ family \in {"commute", "traffic"}
    /\ \E e \in MalformedEntries(family) :
         kv = [k \in Keys |->
                 IF k \in CommuteKeys \cup {CACHE_KEY_TRAFFIC} THEN e ELSE Absent]
    /\ pc = [r \in Req |-> "idle"]
    /\ ep = [r \in Req |-> "none"]
    /\ loc = [r \in Req |-> NoLoc]
    /\ res = [r \in Req |-> NoRes]
    /\ pending = {}
    /\ obs = [r \in Req |-> NoObs]
    /\ started = 0
    /\ skew \in {f \in [Req -> Skews] : f["h1"] = 0}
    /\ probe = <<>>

NextMalformed ==
    \/ Tick
    \/ \E w \in pending : WriteApplied(w)
    \/ \E w \in pending : WriteRejected(w)
    \/ \E r \in Req : Retire(r)
    \/ \E r \in Req : Commute_Start(r)
    \/ \E r \in Req : Commute_Get(r)
    \/ \E r \in Req : Commute_GetFails(r)
    \/ \E r \in Req : Commute_Search(r)
    \/ \E r \in Req : Commute_SearchFails(r)
    \/ \E r \in Req : Commute_Route(r)
    \/ \E r \in Req : Commute_RouteFails(r)
    \/ \E r \in Req : Traffic_Start(r)
    \/ \E r \in Req : Traffic_Get(r)
    \/ \E r \in Req : Traffic_GetFails(r)
    \/ \E r \in Req : Traffic_Routes(r)
    \/ \E r \in Req : Traffic_RoutesFail(r)

SpecMalformed == InitMalformed /\ [][NextMalformed]_vars

\* the query of a weather request: no parameters (the default location),
\* lat and lon, or a city name
WeatherQueries == {"default", "latlon", "city"}

\* lines 46-70: the parameters are read; a city name is geocoded first
Weather_Start(r) ==
    /\ \E q \in WeatherQueries :
         Receive(r, "weather", "weather",
                 IF q = "city" THEN "w_geocode" ELSE "w_forecast",
                 [id |-> started + 1, query |-> q])
    /\ UNCHANGED <<clock, kv, res, pending, obs, skew, family, probe>>

\* await geocodeCity(city) resolves with a place; lines 71, 76-79
Weather_Geocode(r) ==
    /\ pc[r] = "w_geocode"
    /\ obs' = [obs EXCEPT ![r].calls = @ \cup {<<"geocodeCity">>}]
    /\ pc' = [pc EXCEPT ![r] = "w_forecast"]
    /\ UNCHANGED <<clock, kv, ep, loc, res, pending, started, skew, family, probe>>

\* geocodeCity resolves with null: the 400 of lines 72-75
Weather_GeocodeNone(r) ==
    /\ pc[r] = "w_geocode"
    /\ obs' = [obs EXCEPT ![r].calls = @ \cup {<<"geocodeCity">>}]
    /\ Respond(r, 400, ErrorBody)
    /\ pc' = [pc EXCEPT ![r] = "done"]
    /\ UNCHANGED <<clock, kv, ep, loc, pending, started, skew, family, probe>>

\* geocodeCity rejects: caught at line 148
Weather_GeocodeFails(r) ==
    /\ pc[r] = "w_geocode"
    /\ obs' = [obs EXCEPT ![r].calls = @ \cup {<<"geocodeCity">>},
                          ![r].upFailed = @ \cup {<<"geocodeCity">>}]
    /\ Fail(r)
    /\ UNCHANGED <<clock, kv, ep, loc, pending, started, skew, family, probe>>

\* the object of lines 126-138; updated_iso is taken after the forecast has
\* arrived (line 124)
WeatherObj(r) ==
    [ kind        |-> "weather",
      updated_iso |-> Iso(Now(r)),
      location    |-> loc[r].query,
      current     |-> loc[r].id ]

\* await j(forecast url) resolves with current and daily; lines 121-146
Weather_Forecast(r) ==
    /\ pc[r] = "w_forecast"
    /\ obs' = [obs EXCEPT ![r].calls = @ \cup {<<"forecast">>}]
    /\ Respond(r, 200, WeatherObj(r))
    /\ pc' = [pc EXCEPT ![r] = "done"]
    /\ UNCHANGED <<clock, kv, ep, loc, pending, started, skew, family, probe>>

\* the forecast fetch rejects or lacks current or daily (line 122): caught
\* at line 148
Weather_ForecastFails(r) ==
    /\ pc[r] = "w_forecast"
    /\ obs' = [obs EXCEPT ![r].calls = @ \cup {<<"forecast">>},
                          ![r].upFailed = @ \cup {<<"forecast">>}]
    /\ Fail(r)
    /\ UNCHANGED <<clock, kv, ep, loc, pending, started, skew, family, probe>>

InitWeather ==
    /\ clock = Tue10
    /\ kv = [k \in Keys |-> Absent]
    /\ pc = [r \in Req |-> "idle"]
    /\ ep = [r \in Req |-> "none"]
    /\ loc = [r \in Req |-> NoLoc]
    /\ res = [r \in Req |-> NoRes]
    /\ pending = {}
    /\ obs = [r \in Req |-> NoObs]
    /\ started = 0
    /\ family = "weather"
    /\ skew \in {f \in [Req -> Skews] : f["h1"] = 0}
    /\ probe = <<>>

NextWeather ==
    \/ Tick
    \/ \E r \in Req : Retire(r)
    \/ \E r \in Req : Weather_Start(r)
    \/ \E r \in Req : Weather_Geocode(r)
    \/ \E r \in Req : Weather_GeocodeNone(r)
    \/ \E r \in Req : Weather_GeocodeFails(r)
    \/ \E r \in Req : Weather_Forecast(r)
    \/ \E r \in Req : Weather_ForecastFails(r)

SpecWeather == InitWeather /\ [][NextWeather]_vars

\* the instant the stored entries are stamped with
GateStamp == Tue10 + 7 * HourMs

\* ages of the entry at the instant of the test, in ms
GateAges ==
    { 0 - HISTORY_TTL_MS, 0 - 1, 0, 1,
      TTL_SEC * 1000 - 1, TTL_SEC * 1000,
      HISTORY_TTL_MS - 1, HISTORY_TTL_MS, HISTORY_TTL_MS + 1 }

\* the timestamp field of a stored entry: a date, another string, or none
GateStamps == {Iso(GateStamp), BadString, Null}

GateCommuteKey == cacheKey(<<"a">>, <<"b">>)

InitGate ==
    /\ clock = GateStamp
    /\ \E st \in GateStamps, series \in {<<>>, <<1>>} :
         kv = [k \in Keys |->
                 IF k = GateCommuteKey
                 THEN [kind |-> "commute", updated_iso |-> st, from |-> 1, to |-> 1, route |-> 1]
                 ELSE IF k = CACHE_KEY_TRAFFIC
                 THEN [kind |-> "traffic", updated_iso |-> st,
                       routes |-> [rt \in TrafficRoutes |-> 1]]
                 ELSE IF k = HISTORY_KEY("SPY")
                 THEN [cached_at |-> st, series |-> series]
                 ELSE Absent]
    /\ pc = [r \in Req |-> "idle"]
    /\ ep = [r \in Req |-> "none"]
    /\ loc \in [Req -> [now : {GateStamp + a : a \in GateAges}]]
    /\ res = [r \in Req |-> NoRes]
    /\ pending = {}
    /\ obs = [r \in Req |-> NoObs]
    /\ started = 0
    /\ family = "commute"
    /\ skew = [r \in Req |-> 0]
    /\ probe = <<>>

\* the three tests evaluated at Date.now() = loc[r].now
Probe_Fresh ==
    /\ probe = <<>>
    /\ probe' = [r \in Req |->
                   [commute |-> CommuteFresh(kv[GateCommuteKey], loc[r].now),
                    traffic |-> TrafficFresh(kv[CACHE_KEY_TRAFFIC], loc[r].now),
                    history |-> HistoryServable(kv[HISTORY_KEY("SPY")], loc[r].now)]]
    /\ UNCHANGED <<clock, kv, pc, ep, loc, res, pending, obs, started, skew, family>>

NextGate == Probe_Fresh

SpecGate == InitGate /\ [][NextGate]_vars

----------------------------------------------------------------------------
(* Properties of the key derivation and of the freshness tests *)

\* the parameters of r after trimming and lower-casing
Normalized(r) == <<ToLower(Trim(loc[r].from)), ToLower(Trim(loc[r].to))>>

\* C18: two requests whose (from, to) pairs differ after trimming and
\* lower-casing are never given the same cache key.
C18_DistinctPairsDistinctKeys ==
    (probe # <<>> /\ \A r \in Req : probe[r] # Rejected) =>
        (Normalized("h1") # Normalized("h2") => probe["h1"] # probe["h2"])

\* C19: two requests whose from and to parameters are equal after trimming
\* and lower-casing are given the identical cache key.
C19_EqualPairsSameKey ==
    (probe # <<>> /\ \A r \in Req : probe[r] # Rejected) =>
        (Normalized("h1") = Normalized("h2") => probe["h1"] = probe["h2"])

\* a query parameter that is missing or empty after trimming
Blank(q) == Trim(q) = <<>>

\* C20: a commute request with a missing or blank from or to is answered 400
\* and touches nothing: it has read no key, fetched nothing upstream and
\* called kv.set on nothing. A request that got as far as a key has two
\* parameters that are not blank, and is not answered 400.
C20_BlankRejectedUntouched ==
    \A r \in Req :
        (ep[r] = "commute" /\ pc[r] # "idle") =>
            IF "key" \in DOMAIN loc[r]
            THEN /\ res[r].status # 400
                 /\ \E f \in FromInputs, t \in ToInputs :
                       /\ ~Blank(f) /\ ~Blank(t)
                       /\ loc[r].key = cacheKey(clampLen(f, 160), clampLen(t, 160))
            ELSE /\ Blank(loc[r].from) \/ Blank(loc[r].to)
                 /\ pc[r] = "done"
                 /\ res[r] = [status |-> 400, body |-> ErrorBody]
                 /\ obs[r] = NoObs
                 /\ PendingOf(r) = {}

\* a request whose to parameter is a single space was answered 400 while
\* the entry of another request, which it left alone, is in the store
C20_BlankToRejected ==
    \E r \in Req :
        /\ ep[r] = "commute" /\ pc[r] = "done"
        /\ "key" \notin DOMAIN loc[r]
        /\ ~Blank(loc[r].from) /\ loc[r].to = <<" ">>
        /\ res[r].status = 400
        /\ obs[r].reads = {} /\ obs[r].calls = {} /\ obs[r].issued = {}
        /\ \E k \in CommuteKeys : kv[k] # Absent

\* r is in a case where a failed fetch is not to be covered by the stored
\* snapshot: a commute or traffic refresh, or a markets request in the window
NoFallback(r) ==
    \/ ep[r] \in {"commute", "traffic"}
    \/ ep[r] \in {"markets", "markets2"} /\ InWindow(loc[r].now)

\* C21: when an upstream fetch of a commute or traffic refresh fails, or a
\* fetch (a quote fetch included) of a markets request in the active window
\* fails, while a
\* snapshot is stored under the request's key, the request is answered 500
\* with the error body and not with the stored snapshot; the stored snapshot
\* stays as it is.
C21_FailureNeverServesStale ==
    [][ \A r \in Req :
          (NoFallback(r) /\ obs'[r].upFailed \ obs[r].upFailed # {}
             /\ kv[PrimaryKey(r)] # Absent) =>
                /\ res'[r] = [status |-> 500, body |-> ErrorBody]
                /\ kv'[PrimaryKey(r)] = kv[PrimaryKey(r)]
      ]_vars

\* the route fetch of a traffic request failed after the request had found
\* the stored snapshot older than the TTL, and the snapshot is still stored
C21_FailedOverStaleSnapshot ==
    \E r \in Req :
        /\ ep[r] = "traffic"
        /\ obs[r].gate.present /\ obs[r].gate.valid
        /\ obs[r].gate.age >= SNAP_TTL_SEC * 1000
        /\ obs[r].upFailed # {}
        /\ res[r] = [status |-> 500, body |-> ErrorBody]
        /\ kv[CACHE_KEY_TRAFFIC] # Absent

\* C22: for one stored entry and one TTL, an entry judged fresh at some
\* instant is judged fresh at every earlier instant, the instants before the
\* entry's own timestamp included; in the commute, the traffic and the history
\* test.
C22_FreshAtEverySmallerAge ==
    probe # <<>> =>
        \A r1, r2 \in Req :
            loc[r1].now < loc[r2].now =>
                \A test \in {"commute", "traffic", "history"} :
                    probe[r2][test] => probe[r1][test]

\* an entry fresh one millisecond before the TTL runs out is fresh one
\* millisecond before its own timestamp, in all three tests
C22_FreshBelowZero ==
    /\ probe # <<>>
    /\ loc["h1"].now = GateStamp - 1
    /\ loc["h2"].now = GateStamp + TTL_SEC * 1000 - 1
    /\ \A r \in Req : probe[r].commute /\ probe[r].traffic /\ probe[r].history

\* C23: a markets response is never built from a snapshot of another
\* handler version's shape: every 200 response of a markets handler carries
\* a quote slot for exactly the symbols of the handler that answers.
C23_ServedShapeIsOwnShape ==
    \A r \in Req :
        (ep[r] \in {"markets", "markets2"} /\ res[r].status = 200)
            => DOMAIN res[r].body.symbols = SymbolsOf(r)

\* s-maxage=900 of line 145: the 15 minutes a cache in front of the handler
\* may keep a response, in seconds
WEATHER_TTL_SEC == 900

\* C24: a weather request for a location of which a snapshot was assembled
\* less than 15 minutes earlier is answered without any upstream fetch.
C24_WeatherServedWithinTtl ==
    \A r, q \in Req :
        ( /\ ep[r] = "weather" /\ ep[q] = "weather"
          /\ loc[q].id < loc[r].id
          /\ res[q].status = 200
          /\ loc[r].query = loc[q].query
          /\ pc[r] = "done"
          /\ Now(r) - res[q].body.updated_iso.ms < WEATHER_TTL_SEC * 1000 )
            => obs[r].calls = {}

\* v is a snapshot of an active-window cycle of the handler with symbols S
ActiveSnapshot(v, S) ==
    /\ v # Absent
    /\ v.in_hours = TRUE
    /\ v.updated_iso.kind = "iso"
    /\ DOMAIN v.symbols = S
    /\ \A sym \in S : v.symbols[sym].kind = "quote"
    /\ "current_fetch_iso" \notin DOMAIN v
    /\ "error" \notin DOMAIN v

\* C25: every value a markets handler stores under the markets key, and so
\* every value the key ever holds, has in_hours true, a timestamp in
\* updated_iso, a quote for every symbol of the handler that wrote it, and
\* neither current_fetch_iso nor the error marker of the "no previous data"
\* result; it is written by a request that ran inside the window.
C25_OnlyActiveSnapshotsStored ==
    [][ /\ \A w \in pending' \ pending :
             w.key = CACHE_KEY =>
               \E r \in Req : /\ loc[r].id = w.by
                              /\ InWindow(loc[r].now)
                              /\ ActiveSnapshot(w.val, SymbolsOf(r))
        /\ kv'[CACHE_KEY] # kv[CACHE_KEY] =>
              \E w \in pending : w.key = CACHE_KEY /\ kv'[CACHE_KEY] = w.val
        /\ \/ kv'[CACHE_KEY] = Absent
           \/ ActiveSnapshot(kv'[CACHE_KEY], syms)
           \/ ActiveSnapshot(kv'[CACHE_KEY], syms2)
      ]_vars

\* a request outside the window was answered with the annotated snapshot,
\* and the stored snapshot is without the annotations
C25_AnnotatedNotStored ==
    \E r \in Req :
        /\ Inactive(r) /\ res[r].status = 200
        /\ res[r].body.in_hours = FALSE
        /\ "current_fetch_iso" \in DOMAIN res[r].body
        /\ ActiveSnapshot(kv[CACHE_KEY], syms)

\* the keys of the primary snapshots
PrimaryKeys == TtlKeys \cup {CACHE_KEY}

\* C26: the updated_iso of the entry under a key never decreases: no step
\* replaces a stored snapshot by one with an earlier updated_iso.
C26_StampNeverDecreases ==
    [][ \A k \in PrimaryKeys :
          (kv[k] # Absent /\ kv'[k] # Absent) =>
              kv'[k].updated_iso.ms >= kv[k].updated_iso.ms
      ]_vars

\* a history entry whose series is empty or is no array
Unservable(entry) == "series" \notin DOMAIN entry \/ entry.series = <<>>

Malformed(entry) == entry # Absent /\ ~TruthyNum(CachedAt(entry))

\* C28: a commute or traffic request whose kv.get finds an entry with no
\* updated_iso, or with one that is no date, is not answered by that step,
\* neither with an error nor with the entry: it goes on to fetch upstream.
\* When its fetches have succeeded it has answered 200 with the snapshot it
\* assembled and called kv.set with it under the key; it is answered 500 only
\* because a fetch of its own failed. Its write, reaching the store, replaces
\* the entry.
C28_MalformedIsStale ==
    [][ /\ \A r \in Req :
             /\ (ep[r] \in {"commute", "traffic"}
                   /\ ~obs[r].gate.checked /\ obs'[r].gate.checked
                   /\ Malformed(kv[loc[r].key]))
                  => /\ res'[r] = NoRes
                     /\ pc'[r] \in {"c_search", "t_routes"}
                     /\ ~obs'[r].gate.served
             /\ (TtlGated(r)' /\ obs'[r].gate.present /\ ~obs'[r].gate.valid
                   /\ pc'[r] = "done")
                  => IF res'[r].status = 200
                     THEN /\ obs'[r].calls = OwnFetches(r)'
                          /\ loc'[r].key \in obs'[r].issued
                          /\ OneCycle(res[r].body)' /\ OwnSnapshot(r, res[r].body)'
                     ELSE /\ res'[r].status = 500
                          /\ obs'[r].upFailed # {}
        /\ \A w \in pending \ pending' :
             (Malformed(kv[w.key]) /\ kv' # kv) => kv'[w.key] = w.val /\ ~Malformed(w.val)
      ]_vars

\* a request found the entry without a readable timestamp, fetched, answered
\* 200, and its snapshot has replaced the entry
C28_ReplacedMalformed ==
    \E r \in Req :
        /\ TtlGated(r)
        /\ obs[r].gate.present /\ ~obs[r].gate.valid
        /\ res[r].status = 200
        /\ loc[r].key \in obs[r].wrote
        /\ kv[loc[r].key] = res[r].body
        /\ OwnSnapshot(r, kv[loc[r].key])

\* C29: when a markets request outside the window is answered 200 over a
\* stored snapshot, the history of every symbol whose HistoryEntry is absent
\* or not servable at that moment comes from a series fetch of the request,
\* not from the history inside the stored snapshot.
C29_HistoryFollowsOwnTtl ==
    [][ \A r \in Req :
          ( /\ ep[r] = "markets" /\ pc[r] = "m_get"
            /\ kv[CACHE_KEY] # Absent
            /\ res[r] = NoRes /\ res'[r].status = 200 )
            => \A sym \in syms :
                 ~HistoryServable(kv[HISTORY_KEY(sym)], Now(r))
                    => /\ <<"timeSeriesDaily", sym>> \in obs'[r].calls
                       /\ HISTORY_KEY(sym) \in obs'[r].reads
      ]_vars

====
